---- MODULE Spec2Model ----
(***************************************************************************)
(* A model of sktime/utils/validation/forecasting.py: the validators that  *)
(* estimators call on their inputs before fitting or predicting.  Every    *)
(* validator is a synchronous function of its arguments; the model is a    *)
(* caller that holds argument objects, invokes one validator on them and   *)
(* receives either a returned value or a raised exception.                 *)
(*                                                                         *)
(* Python values are records tagged with their type in the field kind:     *)
(*   None      [kind |-> "NoneType"]                                       *)
(*   int       [kind |-> "int", val |-> n]                                 *)
(*   float     [kind |-> "float", val |-> t]     t counts tenths: 0.5 is 5 *)
(*   str       [kind |-> "str"]                                            *)
(*   list      [kind |-> "list", val |-> <<python values>>]                *)
(*   ndarray   [kind |-> "ndarray", shape |-> <<n, ...>>, dtype |-> t,     *)
(*              val |-> the entries, row after row]                        *)
(*   pd.Index  [kind |-> "RangeIndex" | "Int64Index" | ..., val |-> s]     *)
(*   pd.Series [kind |-> "Series", index |-> pd.Index, values |-> s]       *)
(*   DataFrame [kind |-> "DataFrame", rows |-> r, cells |-> <<cells>>]     *)
(***************************************************************************)
EXTENDS Integers, Sequences, FiniteSets

VARIABLES pc, call, args, args0, ret, prev

vars == <<pc, call, args, args0, ret, prev>>

(***************************************************************************)
(* Bounds of the model.                                                    *)
(***************************************************************************)
MaxLen == 3
MaxStep == 1
MaxIdx == 2
MaxIdxLen == 2

Steps == (0 - MaxStep) .. MaxStep
IdxVals == 0 .. MaxIdx

SeqsUpTo(S, n) == UNION {[1 .. k -> S] : k \in 0 .. n}

(***************************************************************************)
(* Python values and call outcomes.  A call either returns (status "ok",   *)
(* val the returned object) or raises (status "raise", err the exception   *)
(* class, why the raise statement reached, at the column it names).        *)
(***************************************************************************)
None == [kind |-> "NoneType"]
PyInt(n) == [kind |-> "int", val |-> n]
PyFloat(t) == [kind |-> "float", val |-> t]
PyStr == [kind |-> "str"]
PyList(s) == [kind |-> "list", val |-> s]
NdArray(sh, t, s) == [kind |-> "ndarray", shape |-> sh, dtype |-> t, val |-> s]
Array1(t, s) == NdArray(<<Len(s)>>, t, s)
Index(k, s) == [kind |-> k, val |-> s]
Series(i, v) == [kind |-> "Series", index |-> i, values |-> v]
DataFrame(r, c) == [kind |-> "DataFrame", rows |-> r, cells |-> c]

Ok(v) == [status |-> "ok", err |-> "", why |-> "", at |-> 0, val |-> v]
RaiseAt(e, w, c) == [status |-> "raise", err |-> e, why |-> w, at |-> c, val |-> None]
Raise(e, w) == RaiseAt(e, w, 0)

(***************************************************************************)
(* Helpers standing for the library calls the validators make.             *)
(***************************************************************************)
\* sktime.utils.validation.is_int: an integer that is not a boolean
IsInt(x) == x.kind = "int"

Range(s) == {s[i] : i \in DOMAIN s}

RECURSIVE Insert(_, _)
Insert(x, s) ==
    IF s = <<>> THEN <<x>>
    ELSE IF x <= Head(s) THEN <<x>> \o s
    ELSE <<Head(s)>> \o Insert(x, Tail(s))

\* np.sort / ndarray.sort: the values in ascending order
RECURSIVE NpSort(_)
NpSort(s) == IF s = <<>> THEN <<>> ELSE Insert(Head(s), NpSort(Tail(s)))

\* len(np.unique(a)): the number of distinct values
NpUniqueLen(s) == Cardinality(Range(s))

\* pd.RangeIndex(n): the dense range 0 .. n-1
RangeIndex(n) == Index("RangeIndex", [i \in 1 .. n |-> i - 1])

\* strictly increasing: repeated values count as a descent
IsMonotonicStrict(s) == \A i \in 1 .. Len(s) - 1 : s[i] < s[i + 1]

\* pd.Index.is_monotonic: monotonically non-decreasing
IsMonotonic(s) == \A i \in 1 .. Len(s) - 1 : s[i] <= s[i + 1]

\* np.array_equal(a, b) on two indices: same shape and the same values at
\* the same positions, whatever the index class
ArrayEqual(a, b) == Len(a.val) = Len(b.val) /\ \A i \in 1 .. Len(a.val) : a.val[i] = b.val[i]

\* a comparison of the lengths alone
IndexEqualsLengthOnly(a, b) == Len(a.val) = Len(b.val)

\* pd.Index.equals on integer indices: same length and the same values at
\* the same positions, whatever the index class
IndexEquals(a, b) == Len(a.val) = Len(b.val) /\ \A i \in 1 .. Len(a.val) : a.val[i] = b.val[i]

\* ndarray.ndim and len(ndarray)
NdDim(a) == Len(a.shape)
NdLen(a) == a.shape[1]

\* np.issubdtype(dtype, np.integer)
IsIntegerDtype(t) == t \in {"int64", "uint64"}

(***************************************************************************)
(* check_time_index                                                        *)
(***************************************************************************)
SupportedIndexTypes == {"RangeIndex", "Int64Index", "UInt64Index"}

\* pd.Index(ndarray): the index class follows the array's dtype
WrapIndex(a) ==
    Index(IF a.dtype = "int64" THEN "Int64Index"
          ELSE IF a.dtype = "uint64" THEN "UInt64Index" ELSE "Float64Index", a.val)

check_time_index(time_index) ==
    LET ti == IF time_index.kind = "ndarray" THEN WrapIndex(time_index) ELSE time_index
    IN  IF ti.kind \notin SupportedIndexTypes
        THEN Raise("NotImplementedError", "UnsupportedIndexKind")
        ELSE IF ~IsMonotonic(ti.val)
        THEN Raise("ValueError", "UnsortedIndex")
        ELSE Ok(ti)

(***************************************************************************)
(* check_y                                                                 *)
(***************************************************************************)
\* np.all(y == y.iloc[0]) for a series with at least one value
AllEqualFirst(v) == \A i \in DOMAIN v : v[i] = v[1]

check_y(y, allow_empty, allow_constant) ==
    IF y.kind # "Series"
    THEN Raise("TypeError", "WrongType")
    ELSE IF ~allow_empty /\ Len(y.values) < 1
    THEN Raise("ValueError", "EmptySeries")
    ELSE IF ~allow_constant /\ Len(y.values) = 0
    THEN Raise("IndexError", "iloc")
    ELSE IF ~allow_constant /\ AllEqualFirst(y.values)
    THEN Raise("ValueError", "ConstantSeries")
    ELSE LET t == check_time_index(y.index)
         IN  IF t.status = "raise" THEN t ELSE Ok(y)

(***************************************************************************)
(* check_X                                                                 *)
(***************************************************************************)
\* hasattr(cell, 'index')
HasIndex(cell) == cell.kind = "Series"

\* cell.shape[0]
Shape0(cell) == IF cell.kind = "Series" THEN Len(cell.values) ELSE cell.shape[1]

\* the index the loop compares for column c: the cell's own index, or a
\* dense range sized by the shape of the cell in column 0
ColumnIndex(X, c) ==
    IF HasIndex(X.cells[c]) THEN X.cells[c].index ELSE RangeIndex(Shape0(X.cells[1]))

RECURSIVE FirstUnequal(_, _, _)
FirstUnequal(X, first_index, c) ==
    IF c > Len(X.cells) THEN 0
    ELSE IF ~ArrayEqual(first_index, ColumnIndex(X, c)) THEN c
    ELSE FirstUnequal(X, first_index, c + 1)

check_X(X) ==
    IF X.kind # "DataFrame"
    THEN Raise("ValueError", "WrongType")
    ELSE IF X.rows > 1
    THEN Raise("ValueError", "MultiRowInput")
    ELSE IF X.rows < 1 \/ Len(X.cells) < 1
    THEN Raise("IndexError", "iloc")
    ELSE LET first_index == ColumnIndex(X, 1)
             bad == FirstUnequal(X, first_index, 1)
         IN  IF Len(first_index.val) < 1
             THEN RaiseAt("ValueError", "EmptyNestedSeries", 1)
             ELSE IF bad # 0
             THEN RaiseAt("ValueError", "InconsistentNestedIndex", bad)
             ELSE Ok(X)

(***************************************************************************)
(* check_window_length, check_step_length, check_sp                        *)
(***************************************************************************)
\* x is None
IsNone(x) == x.kind = "NoneType"

\* not is_int(x) or x < 1
NotPositiveInt(x) == IF IsInt(x) THEN x.val < 1 ELSE TRUE

\* the validation without the guard for None
check_window_length_unguarded(window_length) ==
    IF NotPositiveInt(window_length)
    THEN Raise("ValueError", "window_length")
    ELSE Ok(window_length)

check_window_length(window_length) ==
    IF ~IsNone(window_length) /\ NotPositiveInt(window_length)
    THEN Raise("ValueError", "window_length")
    ELSE Ok(window_length)

check_step_length(step_length) ==
    IF ~IsNone(step_length) /\ NotPositiveInt(step_length)
    THEN Raise("ValueError", "step_length")
    ELSE Ok(step_length)

check_sp(sp) ==
    IF ~IsNone(sp) /\ NotPositiveInt(sp)
    THEN Raise("ValueError", "sp")
    ELSE Ok(sp)

(***************************************************************************)
(* check_fh.  The single-integer and list branches build a new array; the  *)
(* array branch keeps working on the caller's array, so the final          *)
(* fh.sort() sorts that array in place.  The result of a run is the        *)
(* outcome of the call and the caller's argument object after it.          *)
(***************************************************************************)
\* np.array(fh, dtype=np.int) for a list of integers
ArrayOfList(l) == Array1("int64", [i \in DOMAIN l.val |-> l.val[i].val])

\* the type dispatch: the array the rest of the function works on, and
\* whether that array is the caller's own object
fh_dispatch(fh) ==
    IF IsInt(fh)
    THEN [res |-> Ok(Array1("int64", <<fh.val>>)), own |-> FALSE]
    ELSE IF fh.kind = "ndarray"
    THEN IF NdDim(fh) > 1
         THEN [res |-> Raise("ValueError", "WrongDimension"), own |-> FALSE]
         ELSE IF ~IsIntegerDtype(fh.dtype)
         THEN [res |-> Raise("ValueError", "NonIntegerHorizon"), own |-> FALSE]
         ELSE [res |-> Ok(fh), own |-> TRUE]
    ELSE IF fh.kind = "list"
    THEN IF ~(\A i \in DOMAIN fh.val : IsInt(fh.val[i]))
         THEN [res |-> Raise("ValueError", "NonIntegerHorizon"), own |-> FALSE]
         ELSE [res |-> Ok(ArrayOfList(fh)), own |-> FALSE]
    ELSE [res |-> Raise("ValueError", "WrongType"), own |-> FALSE]

\* a duplicate check that only looks at neighbours, before sorting
HasAdjacentDuplicates(s) == \E i \in 1 .. Len(s) - 1 : s[i] = s[i + 1]

\* len(fh) != len(np.unique(fh))
HasDuplicates(s) == Len(s) # NpUniqueLen(s)

\* one pass of exchanges of neighbours, which leaves longer arrays unsorted
RECURSIVE BubblePass(_)
BubblePass(s) ==
    IF Len(s) < 2 THEN s
    ELSE IF s[1] <= s[2] THEN <<s[1]>> \o BubblePass(Tail(s))
    ELSE <<s[2]>> \o BubblePass(<<s[1]>> \o Tail(Tail(s)))

fh_sort_one_pass(a) == [a EXCEPT !.val = BubblePass(a.val)]

\* fh.sort(): the array sorted ascending
fh_sort(a) == [a EXCEPT !.val = NpSort(a.val)]

check_fh_run(fh) ==
    LET d == fh_dispatch(fh)
        a == d.res.val
    IN  IF d.res.status = "raise"
        THEN [ret |-> d.res, fh |-> fh]
        ELSE IF NdLen(a) < 1
        THEN [ret |-> Raise("ValueError", "EmptyHorizon"), fh |-> fh]
        ELSE IF HasDuplicates(a.val)
        THEN [ret |-> Raise("ValueError", "DuplicateHorizonSteps"), fh |-> fh]
        ELSE LET sorted == fh_sort(a)
             IN  [ret |-> Ok(sorted), fh |-> IF d.own THEN sorted ELSE fh]

check_fh(fh) == check_fh_run(fh).ret

(***************************************************************************)
(* check_consistent_time_index                                             *)
(***************************************************************************)
\* pd.Index.max() and pd.Index.min(): NaN for an empty index
Num(n) == [nan |-> FALSE, num |-> n]
NaN == [nan |-> TRUE, num |-> 0]

IndexMax(i) ==
    IF i.val = <<>> THEN NaN
    ELSE Num(CHOOSE m \in Range(i.val) : \A x \in Range(i.val) : x <= m)

IndexMin(i) ==
    IF i.val = <<>> THEN NaN
    ELSE Num(CHOOSE m \in Range(i.val) : \A x \in Range(i.val) : m <= x)

\* a >= b on floats: false as soon as one side is NaN
GreaterEqual(a, b) == ~a.nan /\ ~b.nan /\ a.num >= b.num

\* a > b on floats
Greater(a, b) == ~a.nan /\ ~b.nan /\ a.num > b.num

\* a comparison that lets the training index end where the first begins
TrainAfter(train_index, first_index) ==
    Greater(IndexMax(train_index), IndexMin(first_index))

\* y_train.index.max() >= first_index.min()
TrainNotBefore(train_index, first_index) ==
    GreaterEqual(IndexMax(train_index), IndexMin(first_index))

\* the loop over ys[1:]: the first failure it raises, or success
RECURSIVE check_rest(_, _, _)
check_rest(ys, first_index, k) ==
    IF k > Len(ys) THEN Ok(None)
    ELSE LET t == check_time_index(ys[k].index)
         IN  IF t.status = "raise" THEN t
             ELSE IF ~IndexEquals(first_index, ys[k].index)
             THEN Raise("ValueError", "IndexMismatch")
             ELSE check_rest(ys, first_index, k + 1)

check_train(y_train, first_index) ==
    IF IsNone(y_train) THEN Ok(None)
    ELSE LET t == check_time_index(y_train.index)
         IN  IF t.status = "raise" THEN t
             ELSE IF TrainNotBefore(y_train.index, first_index)
             THEN Raise("ValueError", "TrainingLeaksIntoTest")
             ELSE Ok(None)

check_consistent_time_index(ys, y_train) ==
    LET first_index == ys[1].index
        f == check_time_index(first_index)
        r == check_rest(ys, first_index, 2)
    IN  IF f.status = "raise" THEN f
        ELSE IF r.status = "raise" THEN r
        ELSE check_train(y_train, first_index)

(***************************************************************************)
(* check_alpha                                                             *)
(***************************************************************************)
\* 0 <= a < 1: the lower boundary let through
InHalfOpenUnitInterval(a) == 0 <= a.val /\ a.val < 10

\* 0 < a < 1, for a float counted in tenths
InOpenUnitInterval(a) == 0 < a.val /\ a.val < 10

\* the range loop: the first value it rejects, or success
RECURSIVE alpha_range(_, _)
alpha_range(alpha, k) ==
    IF k > Len(alpha.val) THEN Ok(alpha)
    ELSE IF ~InOpenUnitInterval(alpha.val[k])
    THEN RaiseAt("ValueError", "OutOfRange", k)
    ELSE alpha_range(alpha, k + 1)

check_alpha(alpha) ==
    IF alpha.kind = "list"
    THEN IF ~(\A i \in DOMAIN alpha.val : alpha.val[i].kind = "float")
         THEN Raise("ValueError", "NotFloatList")
         ELSE alpha_range(alpha, 1)
    ELSE IF alpha.kind = "float"
    THEN alpha_range(PyList(<<alpha>>), 1)
    ELSE \* for a in alpha, with alpha None or an int
         Raise("TypeError", "NotIterable")

(***************************************************************************)
(* check_cutoffs                                                           *)
(***************************************************************************)
\* all([is_int(cutoff) for cutoff in cutoffs]): iterating an array yields
\* its entries along the first axis, which are integers only for a 1-d
\* array of integer dtype
AllCutoffsInt(cutoffs) ==
    NdLen(cutoffs) = 0 \/ (NdDim(cutoffs) = 1 /\ IsIntegerDtype(cutoffs.dtype))

check_cutoffs(cutoffs) ==
    IF cutoffs.kind # "ndarray"
    THEN Raise("ValueError", "WrongType")
    ELSE IF ~AllCutoffsInt(cutoffs)
    THEN Raise("ValueError", "NonIntegerCutoffs")
    ELSE IF NdDim(cutoffs) # 1
    THEN Raise("ValueError", "WrongDimension")
    ELSE IF ~(NdLen(cutoffs) > 0)
    THEN Raise("ValueError", "EmptyCutoffs")
    ELSE Ok([cutoffs EXCEPT !.val = NpSort(cutoffs.val)])

(***************************************************************************)
(* The arguments a caller may hold.                                        *)
(***************************************************************************)
StepSeqs == SeqsUpTo(Steps, MaxLen)
IdxSeqs == SeqsUpTo(IdxVals, MaxLen)
ShortIdxSeqs == SeqsUpTo(IdxVals, MaxIdxLen)
ValSeqs == SeqsUpTo({0, 1}, MaxLen)
Zeros(n) == [i \in 1 .. n |-> 0]
IntList(s) == PyList([i \in DOMAIN s |-> PyInt(s[i])])

FhInputs ==
    {PyInt(n) : n \in Steps}
    \cup {IntList(s) : s \in StepSeqs}
    \cup {Array1("int64", s) : s \in StepSeqs}
    \cup {PyList(<<PyInt(1), PyFloat(5)>>), PyList(<<PyFloat(10)>>)}
    \cup {Array1("float64", <<>>), Array1("float64", <<10, 20>>)}
    \cup {NdArray(<<2, 2>>, "int64", <<1, 2, 3, 4>>), NdArray(<<0, 2>>, "int64", <<>>)}
    \cup {None, PyStr, PyFloat(10)}

CutoffsInputs ==
    {Array1("int64", s) : s \in StepSeqs}
    \cup {Array1("float64", <<>>), Array1("float64", <<10, 20>>)}
    \cup {NdArray(<<2, 2>>, "int64", <<1, 2, 3, 4>>), NdArray(<<0, 2>>, "int64", <<>>)}
    \cup {None, PyInt(1), IntList(<<2, 1>>)}

TimeIndexInputs ==
    {Index("Int64Index", s) : s \in IdxSeqs}
    \cup {RangeIndex(n) : n \in 0 .. MaxLen}
    \cup {Array1("int64", s) : s \in IdxSeqs}
    \cup {Index("UInt64Index", s) : s \in ShortIdxSeqs}
    \cup {Index("DatetimeIndex", s) : s \in {<<>>, <<0, 1>>, <<1, 0>>}}
    \cup {Array1("float64", <<0, 10>>)}

YSeries ==
    {Series(Index("Int64Index", p[1]), p[2]) :
        p \in {q \in IdxSeqs \X ValSeqs : Len(q[1]) = Len(q[2])}}
    \cup {Series(RangeIndex(Len(v)), v) : v \in ValSeqs}
    \cup {Series(Index("DatetimeIndex", <<0, 1>>), <<0, 1>>)}
    \cup {Array1("int64", <<0, 1>>)}

YInputs ==
    {[y |-> y, allow_empty |-> e, allow_constant |-> c] :
        y \in YSeries, e \in BOOLEAN, c \in BOOLEAN}

Cells ==
    {Series(Index("Int64Index", s), Zeros(Len(s))) : s \in ShortIdxSeqs}
    \cup {Array1("float64", Zeros(n)) : n \in 0 .. MaxLen}

XInputs ==
    {DataFrame(1, <<a>>) : a \in Cells}
    \cup {DataFrame(1, <<a, b>>) : a \in Cells, b \in Cells}
    \cup {DataFrame(1, <<a, a, b>>) : a \in Cells, b \in Cells}
    \cup {DataFrame(2, <<a>>) : a \in Cells}
    \cup {DataFrame(0, <<>>), DataFrame(1, <<>>), Array1("float64", Zeros(2))}

SeriesOf(i) == Series(i, Zeros(Len(i.val)))

ConsistentSeries ==
    {SeriesOf(Index("Int64Index", s)) : s \in ShortIdxSeqs}
    \cup {SeriesOf(RangeIndex(n)) : n \in 0 .. MaxIdxLen}
    \cup {SeriesOf(Index("DatetimeIndex", <<0, 1>>))}

TrainFew == {None, SeriesOf(Index("Int64Index", <<0>>))}

ConsistentInputs ==
    {[ys |-> <<a>>, y_train |-> t] : a \in ConsistentSeries, t \in ConsistentSeries \cup {None}}
    \cup {[ys |-> <<a, a>>, y_train |-> t] : a \in ConsistentSeries, t \in ConsistentSeries}
    \cup {[ys |-> <<a, b>>, y_train |-> t] : a \in ConsistentSeries, b \in ConsistentSeries, t \in TrainFew}
    \cup {[ys |-> <<a, a, b>>, y_train |-> None] : a \in ConsistentSeries, b \in ConsistentSeries}

AlphaTenths == {0 - 5, 0, 1, 5, 9, 10, 15}
AlphaItems == {PyFloat(t) : t \in AlphaTenths} \cup {PyInt(0), PyInt(1)}

AlphaInputs ==
    {None} \cup AlphaItems \cup {PyList(s) : s \in SeqsUpTo(AlphaItems, MaxIdxLen)}

ScalarInputs ==
    {None, PyStr, PyFloat(5), PyFloat(20)} \cup {PyInt(n) : n \in (0 - MaxStep) .. MaxLen}

Calls ==
    {"check_y", "check_time_index", "check_X", "check_window_length",
     "check_step_length", "check_sp", "check_fh", "check_consistent_time_index",
     "check_alpha", "check_cutoffs"}

Inputs(c) ==
    CASE c = "check_y" -> YInputs
      [] c = "check_time_index" -> {[time_index |-> i] : i \in TimeIndexInputs}
      [] c = "check_X" -> {[X |-> x] : x \in XInputs}
      [] c = "check_window_length" -> {[window_length |-> x] : x \in ScalarInputs}
      [] c = "check_step_length" -> {[step_length |-> x] : x \in ScalarInputs}
      [] c = "check_sp" -> {[sp |-> x] : x \in ScalarInputs}
      [] c = "check_fh" -> {[fh |-> x] : x \in FhInputs}
      [] c = "check_consistent_time_index" -> ConsistentInputs
      [] c = "check_alpha" -> {[alpha |-> x] : x \in AlphaInputs}
      [] c = "check_cutoffs" -> {[cutoffs |-> x] : x \in CutoffsInputs}

(***************************************************************************)
(* The caller.  pc is "ready" before the call and "done" after it; args    *)
(* are the caller's argument objects, args0 their values when the call     *)
(* was made, ret the outcome.  After a successful check_fh the caller may  *)
(* pass the returned horizon to check_fh once more (pc "again"), keeping   *)
(* the first outcome in prev.                                              *)
(***************************************************************************)
Pending == [status |-> "pending", err |-> "", why |-> "", at |-> 0, val |-> None]

Init ==
    /\ pc = "ready"
    /\ call \in Calls
    /\ args \in Inputs(call)
    /\ args0 = args
    /\ ret = Pending
    /\ prev = Pending

Call_check_y ==
    /\ pc = "ready"
    /\ call = "check_y"
    /\ ret' = check_y(args.y, args.allow_empty, args.allow_constant)
    /\ pc' = "done"
    /\ UNCHANGED <<call, args, args0, prev>>

Call_check_time_index ==
    /\ pc = "ready"
    /\ call = "check_time_index"
    /\ ret' = check_time_index(args.time_index)
    /\ pc' = "done"
    /\ UNCHANGED <<call, args, args0, prev>>

Call_check_X ==
    /\ pc = "ready"
    /\ call = "check_X"
    /\ ret' = check_X(args.X)
    /\ pc' = "done"
    /\ UNCHANGED <<call, args, args0, prev>>

Call_check_window_length ==
    /\ pc = "ready"
    /\ call = "check_window_length"
    /\ ret' = check_window_length(args.window_length)
    /\ pc' = "done"
    /\ UNCHANGED <<call, args, args0, prev>>

Call_check_step_length ==
    /\ pc = "ready"
    /\ call = "check_step_length"
    /\ ret' = check_step_length(args.step_length)
    /\ pc' = "done"
    /\ UNCHANGED <<call, args, args0, prev>>

Call_check_sp ==
    /\ pc = "ready"
    /\ call = "check_sp"
    /\ ret' = check_sp(args.sp)
    /\ pc' = "done"
    /\ UNCHANGED <<call, args, args0, prev>>

Call_check_consistent_time_index ==
    /\ pc = "ready"
    /\ call = "check_consistent_time_index"
    /\ ret' = check_consistent_time_index(args.ys, args.y_train)
    /\ pc' = "done"
    /\ UNCHANGED <<call, args, args0, prev>>

Call_check_alpha ==
    /\ pc = "ready"
    /\ call = "check_alpha"
    /\ ret' = check_alpha(args.alpha)
    /\ pc' = "done"
    /\ UNCHANGED <<call, args, args0, prev>>

Call_check_cutoffs ==
    /\ pc = "ready"
    /\ call = "check_cutoffs"
    /\ ret' = check_cutoffs(args.cutoffs)
    /\ pc' = "done"
    /\ UNCHANGED <<call, args, args0, prev>>

Call_check_fh ==
    /\ pc = "ready"
    /\ call = "check_fh"
    /\ LET r == check_fh_run(args.fh)
       IN  /\ ret' = r.ret
           /\ args' = [fh |-> r.fh]
    /\ pc' = "done"
    /\ UNCHANGED <<call, args0, prev>>

Call_check_fh_again ==
    /\ pc = "done"
    /\ call = "check_fh"
    /\ ret.status = "ok"
    /\ LET r == check_fh_run(ret.val)
       IN  /\ ret' = r.ret
           /\ args' = [fh |-> r.fh]
    /\ args0' = [fh |-> ret.val]
    /\ prev' = ret
    /\ pc' = "again"
    /\ UNCHANGED call

Next ==
    \/ Call_check_y
    \/ Call_check_time_index
    \/ Call_check_X
    \/ Call_check_window_length
    \/ Call_check_step_length
    \/ Call_check_sp
    \/ Call_check_fh
    \/ Call_check_fh_again
    \/ Call_check_consistent_time_index
    \/ Call_check_alpha
    \/ Call_check_cutoffs

Spec == Init /\ [][Next]_vars

(***************************************************************************)
(* Properties.  Done(c) holds after the first call of validator c.         *)
(***************************************************************************)
Done(c) == pc = "done" /\ call = c

\* strictly ascending: sorted, and no value twice
StrictlyAscending(s) == \A i \in DOMAIN s : \A j \in DOMAIN s : i < j => s[i] < s[j]

\* non-decreasing
NonDecreasing(s) == \A i \in DOMAIN s : \A j \in DOMAIN s : i < j => s[i] <= s[j]

\* no value at two positions
Distinct(s) == \A i \in DOMAIN s : \A j \in DOMAIN s : i # j => s[i] # s[j]

\* the horizon is an int, a list of ints or a 1-d integer array
IsIntHorizon(fh) ==
    \/ fh.kind = "int"
    \/ fh.kind = "list" /\ \A i \in DOMAIN fh.val : fh.val[i].kind = "int"
    \/ fh.kind = "ndarray" /\ Len(fh.shape) = 1 /\ fh.dtype = "int64"

\* its steps, in the order given
HorizonSteps(fh) ==
    IF fh.kind = "int" THEN <<fh.val>>
    ELSE IF fh.kind = "list" THEN [i \in DOMAIN fh.val |-> fh.val[i].val]
    ELSE fh.val

\* C1: check_fh on a non-empty integer horizon without repeated values
\* returns the same steps, as many of them, sorted ascending without
\* duplicates; on a horizon with a repeated value it fails and returns
\* no deduplicated sequence.
C1_SortedSameElements ==
    (Done("check_fh") /\ IsIntHorizon(args0.fh)) =>
        LET s == HorizonSteps(args0.fh)
        IN  /\ (s # <<>> /\ Distinct(s)) =>
                /\ ret.status = "ok"
                /\ ret.val.kind = "ndarray"
                /\ StrictlyAscending(ret.val.val)
                /\ Range(ret.val.val) = Range(s)
                /\ Len(ret.val.val) = Len(s)
            /\ ~Distinct(s) =>
                /\ ret.status = "raise"
                /\ ret.why = "DuplicateHorizonSteps"

C1_Witness ==
    /\ Done("check_fh")
    /\ args0.fh.kind = "list"
    /\ Len(args0.fh.val) = 3
    /\ ~NonDecreasing(HorizonSteps(args0.fh))
    /\ ret.status = "ok"
    /\ StrictlyAscending(ret.val.val)

\* C2: check_fh is idempotent: called on the result of a successful call
\* it succeeds and returns an equal sequence, zero and negative steps
\* included.
C2_Idempotent ==
    pc = "again" =>
        /\ prev.status = "ok"
        /\ ret.status = "ok"
        /\ ret.val = prev.val

C2_Witness ==
    /\ pc = "again"
    /\ ret.status = "ok"
    /\ Len(ret.val.val) = 3
    /\ \E i \in DOMAIN ret.val.val : ret.val.val[i] < 0
    /\ \E i \in DOMAIN ret.val.val : ret.val.val[i] = 0

\* every index of the call is one check_time_index accepts
AllIndicesValid(a) ==
    /\ \A k \in DOMAIN a.ys :
          a.ys[k].index.kind \in SupportedIndexTypes /\ NonDecreasing(a.ys[k].index.val)
    /\ a.y_train.kind = "Series" =>
          /\ a.y_train.index.kind \in SupportedIndexTypes
          /\ NonDecreasing(a.y_train.index.val)

\* every further series has the index of the first: same length, same
\* values in the same order
YsAgree(a) == \A k \in DOMAIN a.ys : a.ys[k].index.val = a.ys[1].index.val

\* the maximum of the training index is at or after the minimum of the
\* first index
TrainReachesFirst(a) ==
    \E t \in Range(a.y_train.index.val) : \E f \in Range(a.ys[1].index.val) :
        /\ \A x \in Range(a.y_train.index.val) : x <= t
        /\ \A x \in Range(a.ys[1].index.val) : f <= x
        /\ t >= f

\* C3: with a training series, valid indices and agreeing ys,
\* check_consistent_time_index fails exactly when the maximum of the
\* training index is greater than or equal to the minimum of the first
\* index; equality at the boundary fails, a training index strictly
\* before the first index succeeds.
C3_TrainStrictlyBefore ==
    (/\ Done("check_consistent_time_index")
     /\ args0.y_train.kind = "Series"
     /\ AllIndicesValid(args0)
     /\ YsAgree(args0)) =>
        /\ ret.status = "raise" <=> TrainReachesFirst(args0)
        /\ ret.status = "raise" => ret.why = "TrainingLeaksIntoTest"
        /\ ret.status = "ok" => ret.val = None

C3_Witness ==
    /\ Done("check_consistent_time_index")
    /\ args0.y_train.kind = "Series"
    /\ Len(args0.ys) = 2
    /\ AllIndicesValid(args0)
    /\ YsAgree(args0)
    /\ args0.y_train.index.val = <<0, 1>>
    /\ args0.ys[1].index.val = <<1, 2>>
    /\ ret.why = "TrainingLeaksIntoTest"

\* C4: without a training series and with valid indices,
\* check_consistent_time_index succeeds exactly when every further series
\* has an index equal to the first one (same length, same values, same
\* order), and fails with the index-mismatch error otherwise.
C4_IndexMismatch ==
    (/\ Done("check_consistent_time_index")
     /\ args0.y_train = None
     /\ AllIndicesValid(args0)) =>
        /\ ret.status = "ok" <=> YsAgree(args0)
        /\ ret.status = "raise" => ret.why = "IndexMismatch"

C4_Witness ==
    /\ Done("check_consistent_time_index")
    /\ args0.y_train = None
    /\ AllIndicesValid(args0)
    /\ Len(args0.ys) = 3
    /\ args0.ys[2].index.val = args0.ys[1].index.val
    /\ Len(args0.ys[3].index.val) = Len(args0.ys[1].index.val)
    /\ args0.ys[3].index.val # args0.ys[1].index.val
    /\ ret.why = "IndexMismatch"

\* the effective index of a cell: its own index, or a dense range sized
\* to its own element count
EffectiveIndex(cell) ==
    IF cell.kind = "Series" THEN cell.index.val ELSE [i \in 1 .. cell.shape[1] |-> i - 1]

\* C5: check_X on a single-row table whose first column has a non-empty
\* effective index fails with the inconsistent-nested-index error, naming
\* the column, whenever a column's effective index (its own index, or a
\* dense range sized to its own element count) differs from the first
\* column's, for indexed and raw cells alike.
C5_EveryColumnCompared ==
    (/\ Done("check_X")
     /\ args0.X.kind = "DataFrame"
     /\ args0.X.rows = 1
     /\ Len(args0.X.cells) >= 1
     /\ EffectiveIndex(args0.X.cells[1]) # <<>>) =>
        \A c \in DOMAIN args0.X.cells :
            (/\ EffectiveIndex(args0.X.cells[c]) # EffectiveIndex(args0.X.cells[1])
             /\ \A b \in 1 .. c - 1 :
                   EffectiveIndex(args0.X.cells[b]) = EffectiveIndex(args0.X.cells[1])) =>
                ret = RaiseAt("ValueError", "InconsistentNestedIndex", c)

\* the argument of a scalar validator
ScalarArg ==
    CASE call = "check_window_length" -> args0.window_length
      [] call = "check_step_length" -> args0.step_length
      [] call = "check_sp" -> args0.sp
      [] call = "check_alpha" -> args0.alpha
      [] call = "check_cutoffs" -> args0.cutoffs

IntValidators == {"check_window_length", "check_step_length", "check_sp"}
ScalarValidators == IntValidators \cup {"check_alpha", "check_cutoffs"}

\* C6, as stated: each of check_window_length, check_step_length,
\* check_sp, check_alpha and check_cutoffs returns None unchanged when
\* given None.
C6_NoneAlwaysPermitted ==
    (pc = "done" /\ call \in ScalarValidators /\ ScalarArg = None) => ret = Ok(None)

\* C6, amended: check_window_length, check_step_length and check_sp return
\* None unchanged when given None; check_alpha and check_cutoffs fail on
\* None.
C6_NonePermittedByIntValidators ==
    (pc = "done" /\ call \in ScalarValidators /\ ScalarArg = None) =>
        /\ call \in IntValidators => ret = Ok(None)
        /\ call = "check_alpha" => (ret.status = "raise" /\ ret.err = "TypeError")
        /\ call = "check_cutoffs" => (ret.status = "raise" /\ ret.err = "ValueError")

C6_Witness ==
    /\ Done("check_window_length")
    /\ args0.window_length = None
    /\ ret = Ok(None)

\* the confidence levels supplied: a float, or a list of floats
IsFloatAlpha(alpha) ==
    \/ alpha.kind = "float"
    \/ alpha.kind = "list" /\ \A i \in DOMAIN alpha.val : alpha.val[i].kind = "float"

AlphaLevels(alpha) == IF alpha.kind = "float" THEN <<alpha>> ELSE alpha.val

\* strictly between 0 and 1, in tenths
StrictlyInside(a) == a.val \in 1 .. 9

\* C7: check_alpha returns a sequence: a float strictly inside (0, 1) comes
\* back as a one-element list, a list with the same elements; it fails with
\* the out-of-range error whenever a supplied value is not strictly between
\* 0 and 1, and rejects the boundary values 0 and 1.
C7_AlphaOpenInterval ==
    Done("check_alpha") =>
        /\ ret.status = "ok" => ret.val.kind = "list"
        /\ IsFloatAlpha(args0.alpha) =>
            IF \A i \in DOMAIN AlphaLevels(args0.alpha) :
                   StrictlyInside(AlphaLevels(args0.alpha)[i])
            THEN ret = Ok(PyList(AlphaLevels(args0.alpha)))
            ELSE ret.status = "raise" /\ ret.err = "ValueError" /\ ret.why = "OutOfRange"
        /\ args0.alpha \in {PyFloat(0), PyFloat(10), PyInt(0), PyInt(1)} =>
            ret.status = "raise"

C7_Witness ==
    /\ Done("check_alpha")
    /\ args0.alpha = PyFloat(0)
    /\ ret.why = "OutOfRange"

\* the index is a dense range or an explicit integer sequence
IsIntegerIndex(ti) ==
    \/ ti.kind \in SupportedIndexTypes
    \/ ti.kind = "ndarray" /\ Len(ti.shape) = 1 /\ ti.dtype \in {"int64", "uint64"}

\* C8: check_time_index on an integer index succeeds exactly when the
\* sequence is non-decreasing, repeated adjacent values tolerated, and
\* then returns an index with the same values in the same order; a
\* sequence with a descent fails with the unsorted-index error.
C8_MonotonicIndex ==
    (Done("check_time_index") /\ IsIntegerIndex(args0.time_index)) =>
        /\ ret.status = "ok" <=> NonDecreasing(args0.time_index.val)
        /\ ret.status = "ok" =>
            (ret.val.kind \in SupportedIndexTypes /\ ret.val.val = args0.time_index.val)
        /\ ret.status = "raise" => ret.why = "UnsortedIndex"

C8_Witness ==
    /\ Done("check_time_index")
    /\ args0.time_index.kind = "Int64Index"
    /\ args0.time_index.val = <<0, 1, 1>>
    /\ ret.status = "ok"

\* C9: a validator call leaves the caller's argument objects as they were:
\* the same values in the same order after the call as before it.
C9_ArgumentsUntouched == pc \in {"done", "again"} => args = args0

\* C10: check_y on a series with a valid index fails with the empty-series
\* error exactly when allow_empty is false and the length is zero, with
\* the constant-series error exactly when allow_constant is false and
\* every value equals the first (and the empty-series error is not due),
\* and otherwise returns the series unchanged; no other failure occurs.
C10_OnlyEmptyOrConstant ==
    (/\ Done("check_y")
     /\ args0.y.kind = "Series"
     /\ args0.y.index.kind \in SupportedIndexTypes
     /\ NonDecreasing(args0.y.index.val)) =>
        LET v == args0.y.values
            empty == ~args0.allow_empty /\ Len(v) = 0
            constant == ~args0.allow_constant /\ \A i \in DOMAIN v : v[i] = v[1]
        IN  /\ ret.why = "EmptySeries" <=> empty
            /\ ret.why = "ConstantSeries" <=> (constant /\ ~empty)
            /\ (~empty /\ ~constant) => ret = Ok(args0.y)
            /\ ret.status = "raise" => ret.why \in {"EmptySeries", "ConstantSeries"}

====
